---- MODULE Spec2Model ----
(***************************************************************************)
(* Model of lgo_structural_verification.py: the module constants, the five *)
(* arithmetic functions and the driver run_verification.                    *)
(*                                                                         *)
(* Python's float is IEEE-754 binary64.  TLC's integers are 32 bits wide,  *)
(* so a double's significand (53 bits) is kept as a little-endian sequence *)
(* of limbs in base 2^15, and +, -, *, / are computed exactly and rounded  *)
(* to nearest-even, with subnormals, signed zeros, infinities and NaN.     *)
(***************************************************************************)
EXTENDS Integers, Sequences, FiniteSets, TLC

(***************************************************************************)
(* Natural numbers of any size: <<>> is 0, the last limb is never 0.       *)
(***************************************************************************)
Base == 2^15

RECURSIVE IntBitLen(_)
IntBitLen(n) == IF n = 0 THEN 0 ELSE 1 + IntBitLen(n \div 2)

\* bits per limb
LimbBits == IntBitLen(Base - 1)

Limb(a, i) == IF i <= Len(a) THEN a[i] ELSE 0

RECURSIVE BNorm(_)
BNorm(a) ==
  IF a = <<>> THEN <<>>
  ELSE IF a[Len(a)] = 0 THEN BNorm(SubSeq(a, 1, Len(a) - 1))
  ELSE a

BFromInt(n) ==
  IF n = 0 THEN <<>>
  ELSE IF n < Base THEN <<n>>
  ELSE IF n < Base * Base THEN <<n % Base, n \div Base>>
  ELSE <<n % Base, (n \div Base) % Base, n \div (Base * Base)>>

RECURSIVE BAddFrom(_, _, _, _)
BAddFrom(a, b, i, c) ==
  IF i > Len(a) /\ i > Len(b)
  THEN IF c = 0 THEN <<>> ELSE <<c>>
  ELSE LET t == Limb(a, i) + Limb(b, i) + c
       IN  <<t % Base>> \o BAddFrom(a, b, i + 1, t \div Base)

BAdd(a, b) == BAddFrom(a, b, 1, 0)

\* a - b for a >= b
RECURSIVE BSubFrom(_, _, _, _)
BSubFrom(a, b, i, c) ==
  IF i > Len(a) THEN <<>>
  ELSE LET t == a[i] - Limb(b, i) - c
       IN  IF t < 0 THEN <<t + Base>> \o BSubFrom(a, b, i + 1, 1)
           ELSE <<t>> \o BSubFrom(a, b, i + 1, 0)

BSub(a, b) == BNorm(BSubFrom(a, b, 1, 0))

\* -1, 0, 1 as a < b, a = b, a > b
RECURSIVE BCmpFrom(_, _, _)
BCmpFrom(a, b, i) ==
  IF i = 0 THEN 0
  ELSE IF a[i] < b[i] THEN -1
  ELSE IF a[i] > b[i] THEN 1
  ELSE BCmpFrom(a, b, i - 1)

BCmp(a, b) ==
  IF Len(a) < Len(b) THEN -1
  ELSE IF Len(a) > Len(b) THEN 1
  ELSE BCmpFrom(a, b, Len(a))

\* a * k for 0 <= k < Base
RECURSIVE BMulIntFrom(_, _, _, _)
BMulIntFrom(a, k, i, c) ==
  IF i > Len(a)
  THEN IF c = 0 THEN <<>> ELSE <<c>>
  ELSE LET t == a[i] * k + c
       IN  <<t % Base>> \o BMulIntFrom(a, k, i + 1, t \div Base)

BMulInt(a, k) == IF k = 0 THEN <<>> ELSE BMulIntFrom(a, k, 1, 0)

Zeros(n) == [i \in 1..n |-> 0]

BShiftLimbs(a, n) == IF a = <<>> THEN <<>> ELSE Zeros(n) \o a

RECURSIVE BMulFrom(_, _, _)
BMulFrom(a, b, j) ==
  IF j > Len(b) THEN <<>>
  ELSE BAdd(BShiftLimbs(BMulInt(a, b[j]), j - 1), BMulFrom(a, b, j + 1))

BMul(a, b) == BMulFrom(a, b, 1)

\* a * 2^n
BShl(a, n) == BShiftLimbs(BMulInt(a, 2^(n % LimbBits)), n \div LimbBits)

\* floor(a / 2^n)
BShr(a, n) ==
  LET q == n \div LimbBits
      r == n % LimbBits
      p == 2^r
      h == 2^(LimbBits - r)
  IN  IF q >= Len(a) THEN <<>>
      ELSE BNorm([i \in 1..(Len(a) - q) |->
                    (a[i + q] \div p) + (Limb(a, i + q + 1) % p) * h])

\* bit i of a, bit 0 the lowest
BBit(a, i) == (Limb(a, (i \div LimbBits) + 1) \div 2^(i % LimbBits)) % 2

\* whether any of the n lowest bits of a is set
BLowNonzero(a, n) ==
  LET q == n \div LimbBits
      r == n % LimbBits
  IN  \/ \E i \in 1..q : Limb(a, i) # 0
      \/ Limb(a, q + 1) % 2^r # 0

BBitLen(a) ==
  IF a = <<>> THEN 0 ELSE LimbBits * (Len(a) - 1) + IntBitLen(a[Len(a)])

\* the largest k + j, 0 <= j < 2^(b+1), with d * (k + j) <= r
RECURSIVE QDigit(_, _, _, _)
QDigit(r, d, k, b) ==
  IF b < 0 THEN k
  ELSE IF BCmp(BMulInt(d, k + 2^b), r) <= 0 THEN QDigit(r, d, k + 2^b, b - 1)
  ELSE QDigit(r, d, k, b - 1)

\* one step of the long division of n by d: x is the next limb of n,
\* top = <<quotient so far, remainder so far>>
DivSub(d, r2, q, k) == <<<<k>> \o q, BSub(r2, BMulInt(d, k))>>

DivDigit(d, r2, q) == DivSub(d, r2, q, QDigit(r2, d, 0, LimbBits - 1))

DivStep(x, d, top) ==
  IF top[2] = <<>> /\ x = 0 THEN <<<<0>> \o top[1], <<>>>>
  ELSE DivDigit(d, <<x>> \o top[2], top[1])

\* long division, one limb at a time from the top: <<quotient, remainder>> of
\* the number made of limbs i.. of n, the quotient not yet normalised
RECURSIVE BDivModFrom(_, _, _)
BDivModFrom(n, d, i) ==
  IF i > Len(n) THEN <<<<>>, <<>>>>
  ELSE DivStep(n[i], d, BDivModFrom(n, d, i + 1))

NormQuot(qr) == <<BNorm(qr[1]), qr[2]>>

BDivMod(n, d) == NormQuot(BDivModFrom(n, d, 1))

RECURSIVE BPow10(_)
BPow10(k) ==
  IF k < 4 THEN BFromInt(10^k) ELSE BMulInt(BPow10(k - 4), 10^4)

RECURSIVE BPow5(_)
BPow5(k) ==
  IF k < 4 THEN BFromInt(5^k) ELSE BMulInt(BPow5(k - 4), 5^4)

RECURSIVE BFromDigits(_)
BFromDigits(ds) ==
  IF ds = <<>> THEN <<>>
  ELSE BAdd(BMulInt(BFromDigits(SubSeq(ds, 1, Len(ds) - 1)), 10),
            BFromInt(ds[Len(ds)]))

(***************************************************************************)
(* A Python float (IEEE-754 binary64).  A finite value is                  *)
(* (-1)^s * m * 2^e with m a natural below 2^MantDig; it is kept canonical:*)
(* m has exactly MantDig bits, or e = MinExp (subnormal), or m = 0 and     *)
(* e = 0 (a signed zero).                                                  *)
(***************************************************************************)
MantDig == 53
MinExp == -1074
MaxExp == 971

Fin(s, m, e) == [k |-> "fin", s |-> s, m |-> m, e |-> e]
FZero(s) == Fin(s, <<>>, 0)
FInf(s) == [k |-> "inf", s |-> s, m |-> <<>>, e |-> 0]
NaN == [k |-> "nan", s |-> 0, m |-> <<>>, e |-> 0]

IsNaN(a) == a.k = "nan"
IsInf(a) == a.k = "inf"
IsFinite(a) == a.k = "fin"
IsZero(a) == a.k = "fin" /\ a.m = <<>>

Xor(s, t) == (s + t) % 2

Pack(s, m, e) ==
  IF m = <<>> THEN FZero(s) ELSE IF e > MaxExp THEN FInf(s) ELSE Fin(s, m, e)

\* a carry out of the top bit moves the last place up by one
Normalise(s, m, e) ==
  IF BBitLen(m) > MantDig THEN Pack(s, BShr(m, 1), e + 1) ELSE Pack(s, m, e)

\* whether dropping the sh lowest bits of M rounds up: the first dropped bit
\* is set and the rest is not zero (more than half) or the kept part is odd
RoundsUp(M, sh, sticky) ==
  /\ BBit(M, sh - 1) = 1
  /\ sticky \/ BLowNonzero(M, sh - 1) \/ BBit(M, sh) = 1

RoundCarry(s, q, up, e) == Normalise(s, IF up THEN BAdd(q, <<1>>) ELSE q, e)

\* er is the exponent of the result's last place
RoundTo(s, M, E, sticky, er) ==
  IF er <= E THEN Pack(s, BShl(M, E - er), er)
  ELSE RoundCarry(s, BShr(M, er - E), RoundsUp(M, er - E, sticky), er)

LastPlace(e) == IF e > MinExp THEN e ELSE MinExp

\* (-1)^s * (M + x) * 2^E, with 0 <= x < 1 and x > 0 exactly when sticky,
\* rounded to the nearest double, ties to even
Round(s, M, E, sticky) ==
  IF M = <<>> THEN FZero(s)
  ELSE RoundTo(s, M, E, sticky, LastPlace(E + BBitLen(M) - MantDig))

\* a quotient <<q, r>> of scale 2^E, rounded: the remainder only tells
\* whether the quotient is exact
RoundQuot(s, qr, E) == Round(s, qr[1], E, qr[2] # <<>>)

\* n * 2^e for a small natural n, exactly
F2(s, n, e) == Round(s, BFromInt(n), e, FALSE)

DecShift(D, P, e10, sh) == RoundQuot(0, BDivMod(BShl(D, sh), P), e10 - sh)

\* D / 10^k = (D / 5^k) * 2^-k, the quotient taken to MantDig + 3 bits
DecDiv(D, P, e10) == DecShift(D, P, e10, MantDig + 3 + BBitLen(P))

\* the double a decimal literal denotes: digits ds times 10^e10
Dec(ds, e10) ==
  IF e10 >= 0 THEN Round(0, BMul(BFromDigits(ds), BPow10(e10)), 0, FALSE)
  ELSE DecDiv(BFromDigits(ds), BPow5(-e10), e10)

FNeg(a) == IF IsNaN(a) THEN a ELSE [a EXCEPT !.s = 1 - a.s]
FAbs(a) == IF IsNaN(a) THEN a ELSE [a EXCEPT !.s = 0]

\* b lies below a quarter of a's last place: only its presence counts
AddFar(a, same) ==
  Round(a.s, IF same THEN BShl(a.m, 2) ELSE BSub(BShl(a.m, 2), <<1>>),
        a.e - 2, TRUE)

\* opposite signs, c the comparison of the magnitudes A * 2^b.e and b
AddDiff(a, b, A, c) ==
  IF c = 0 THEN FZero(0)
  ELSE Round(IF c > 0 THEN a.s ELSE b.s,
             IF c > 0 THEN BSub(A, b.m) ELSE BSub(b.m, A), b.e, FALSE)

AddNear(a, b, A) ==
  IF a.s = b.s THEN Round(a.s, BAdd(A, b.m), b.e, FALSE)
  ELSE AddDiff(a, b, A, BCmp(A, b.m))

\* the sum of two finite nonzero doubles, a the one with the larger exponent
AddOrdered(a, b) ==
  IF a.e - b.e > MantDig + 10 THEN AddFar(a, a.s = b.s)
  ELSE AddNear(a, b, BShl(a.m, a.e - b.e))

FAdd(a, b) ==
  IF IsNaN(a) \/ IsNaN(b) THEN NaN
  ELSE IF IsInf(a) THEN (IF IsInf(b) /\ a.s # b.s THEN NaN ELSE a)
  ELSE IF IsInf(b) THEN b
  ELSE IF IsZero(a) /\ IsZero(b) THEN (IF a.s = b.s THEN a ELSE FZero(0))
  ELSE IF IsZero(a) THEN b
  ELSE IF IsZero(b) THEN a
  ELSE AddOrdered(IF a.e >= b.e THEN a ELSE b, IF a.e >= b.e THEN b ELSE a)

FSub(a, b) == FAdd(a, FNeg(b))

FMul(a, b) ==
  IF IsNaN(a) \/ IsNaN(b) THEN NaN
  ELSE IF IsInf(a) \/ IsInf(b)
       THEN (IF IsZero(a) \/ IsZero(b) THEN NaN ELSE FInf(Xor(a.s, b.s)))
  ELSE IF IsZero(a) \/ IsZero(b) THEN FZero(Xor(a.s, b.s))
  ELSE Round(Xor(a.s, b.s), BMul(a.m, b.m), a.e + b.e, FALSE)

\* the quotient of finite nonzero doubles, taken to at least MantDig + 3 bits
DivShift(a, b, sh) ==
  RoundQuot(Xor(a.s, b.s), BDivMod(BShl(a.m, sh), b.m), a.e - b.e - sh)

\* the IEEE quotient; Python raises before dividing by a zero (see PyDiv)
FDiv(a, b) ==
  IF IsNaN(a) \/ IsNaN(b) THEN NaN
  ELSE IF IsInf(a) THEN (IF IsInf(b) THEN NaN ELSE FInf(Xor(a.s, b.s)))
  ELSE IF IsInf(b) THEN FZero(Xor(a.s, b.s))
  ELSE IF IsZero(b) THEN (IF IsZero(a) THEN NaN ELSE FInf(Xor(a.s, b.s)))
  ELSE IF IsZero(a) THEN FZero(Xor(a.s, b.s))
  ELSE DivShift(a, b, MantDig + 3 + BBitLen(b.m) - BBitLen(a.m))

\* Python's == and < on floats
FEq(a, b) ==
  /\ ~IsNaN(a) /\ ~IsNaN(b)
  /\ \/ IsZero(a) /\ IsZero(b)
     \/ a = b

\* a's and b's top bits are at the same place: compare the significands
MagLtAligned(a, b) ==
  IF a.e >= b.e THEN BCmp(BShl(a.m, a.e - b.e), b.m) < 0
  ELSE BCmp(a.m, BShl(b.m, b.e - a.e)) < 0

\* la, lb: the places of the top bits
MagLtAt(a, b, la, lb) == la < lb \/ (la = lb /\ MagLtAligned(a, b))

\* |a| < |b| for finite nonzero a, b
MagLt(a, b) == MagLtAt(a, b, BBitLen(a.m) + a.e, BBitLen(b.m) + b.e)

FLt(a, b) ==
  IF IsNaN(a) \/ IsNaN(b) THEN FALSE
  ELSE IF IsZero(a) /\ IsZero(b) THEN FALSE
  ELSE IF IsZero(a) THEN b.s = 0
  ELSE IF IsZero(b) THEN a.s = 1
  ELSE IF a.s # b.s THEN a.s = 1
  ELSE IF IsInf(a) THEN a.s = 1 /\ ~IsInf(b)
  ELSE IF IsInf(b) THEN b.s = 0
  ELSE MagLt(IF a.s = 0 THEN a ELSE b, IF a.s = 0 THEN b ELSE a)

(***************************************************************************)
(* The module constants (lines 24-56) and the math module's values.        *)
(***************************************************************************)
One == F2(0, 1, 0)

\* math.pi, and the doubles math.sqrt(2) and math.pi ** 4 evaluate to
Pi == Dec(<<3,1,4,1,5,9,2,6,5,3,5,8,9,7,9,3>>, -15)
Sqrt2 == Dec(<<1,4,1,4,2,1,3,5,6,2,3,7,3,0,9,5,1>>, -16)
PiPow4 == Dec(<<9,7,4,0,9,0,9,1,0,3,4,0,0,2,4,2>>, -14)

C_ZETA == FDiv(One, Sqrt2)
C_MAX == Dec(<<5,5>>, -2)
C_LGO == FDiv(C_ZETA, FMul(C_MAX, PiPow4))
G_CODATA == Dec(<<6,6,7,4,3,0>>, -16)
G_LGO_ORIGINAL == Dec(<<6,6,7,4,3,5>>, -16)
GAMMA_1 == Dec(<<1,4,1,3,4,7,2,5,1,4,1,7>>, -10)
ALPHA_INV_LGO == Dec(<<1,3,6,9,7,3,1,8,6,3,4>>, -8)
ALPHA_LGO == FDiv(One, ALPHA_INV_LGO)
PLANCK_MASS_CODATA == Dec(<<2,1,7,6,4,3,4>>, -14)
MUON_ELECTRON_STRUCTURAL_RATIO == Dec(<<2,0,6,6,4,2,2,2,6,6,7>>, -8)

\* the default of check_structural_consistency's tolerance (line 90)
DefaultTolerance == Dec(<<1>>, -18)

\* run_verification's local constants (lines 159-160)
M_E_CODATA == Dec(<<9,1,0,9,3,8,3,7,0,1,5>>, -41)
M_MU_CODATA == Dec(<<1,8,8,3,5,3,1,6,2,7>>, -37)

\* the module namespace once the module body has run
ModuleGlobals ==
  [C_ZETA |-> C_ZETA, C_MAX |-> C_MAX, C_LGO |-> C_LGO,
   G_CODATA |-> G_CODATA, G_LGO_ORIGINAL |-> G_LGO_ORIGINAL,
   GAMMA_1 |-> GAMMA_1, ALPHA_INV_LGO |-> ALPHA_INV_LGO,
   ALPHA_LGO |-> ALPHA_LGO, PLANCK_MASS_CODATA |-> PLANCK_MASS_CODATA,
   MUON_ELECTRON_STRUCTURAL_RATIO |-> MUON_ELECTRON_STRUCTURAL_RATIO]

(***************************************************************************)
(* How a call ends: it returns a value or raises an exception.             *)
(***************************************************************************)
NoValue == [k |-> "none", s |-> 0, m |-> <<>>, e |-> 0]

Return(v) == [st |-> "return", v |-> v, exc |-> ""]
Raise(x) == [st |-> "raise", v |-> NoValue, exc |-> x]

\* Python's a / b on floats
PyDiv(a, b) ==
  IF FEq(b, FZero(0)) THEN Raise("ZeroDivisionError") ELSE Return(FDiv(a, b))

(***************************************************************************)
(* The five functions (lines 64-124).  g is the module namespace at the    *)
(* time of the call: a function body looks a global name up when it runs.  *)
(***************************************************************************)
\* the parentheses left out: original - target / original
FlawDeltaNoParentheses(G_lgo_original, G_codata) ==
  IF FEq(G_lgo_original, FZero(0)) THEN Raise("ValueError")
  ELSE Return(FSub(G_lgo_original, FDiv(G_codata, G_lgo_original)))

\* the operands of the difference swapped
FlawDeltaSwapped(G_lgo_original, G_codata) ==
  IF FEq(G_lgo_original, FZero(0)) THEN Raise("ValueError")
  ELSE PyDiv(FSub(G_codata, G_lgo_original), G_lgo_original)

\* the guard on the wrong argument
FlawDeltaGuardsTarget(G_lgo_original, G_codata) ==
  IF FEq(G_codata, FZero(0)) THEN Raise("ValueError")
  ELSE PyDiv(FSub(G_lgo_original, G_codata), G_lgo_original)

calculate_geometric_flaw_delta(G_lgo_original, G_codata) ==
  IF FEq(G_lgo_original, FZero(0)) THEN Raise("ValueError")
  ELSE PyDiv(FSub(G_lgo_original, G_codata), G_lgo_original)

\* the correction factor with the wrong sign: 1 + delta
ConsistentGPlusDelta(g, delta) ==
  Return(FMul(g.G_LGO_ORIGINAL, FAdd(One, delta)))

calculate_structurally_consistent_G(g, delta) ==
  Return(FMul(g.G_LGO_ORIGINAL, FSub(One, delta)))

\* <= for <
CheckNotStrict(G_lgo_prime, G_codata, tolerance) ==
  Return(\/ FLt(FAbs(FSub(G_lgo_prime, G_codata)), tolerance)
         \/ FEq(FAbs(FSub(G_lgo_prime, G_codata)), tolerance))

check_structural_consistency(G_lgo_prime, G_codata, tolerance) ==
  Return(FLt(FAbs(FSub(G_lgo_prime, G_codata)), tolerance))

\* x * y for two operands evaluated left to right: the first exception wins
PyMul(x, y) ==
  IF x.st = "raise" THEN x
  ELSE IF y.st = "raise" THEN y
  ELSE Return(FMul(x.v, y.v))

\* alpha == 0 guarded as gamma_1 == 0 is
ElectronMassGuardsAlpha(gamma_1, alpha, m_planck) ==
  IF FEq(gamma_1, FZero(0)) \/ FEq(alpha, FZero(0)) THEN Return(FZero(0))
  ELSE PyMul(PyDiv(One, gamma_1), PyDiv(m_planck, FMul(Pi, alpha)))

\* the gamma_1 guard left out
ElectronMassUnguarded(gamma_1, alpha, m_planck) ==
  PyMul(PyDiv(One, gamma_1), PyDiv(m_planck, FMul(Pi, alpha)))

derive_electron_mass(gamma_1, alpha, m_planck) ==
  IF FEq(gamma_1, FZero(0)) THEN Return(FZero(0))
  ELSE PyMul(PyDiv(One, gamma_1), PyDiv(m_planck, FMul(Pi, alpha)))

\* the wrong module constant
MuonMassWrongConstant(g, m_e_lgo) ==
  Return(FMul(m_e_lgo, g.ALPHA_INV_LGO))

derive_muon_mass(g, m_e_lgo) ==
  Return(FMul(m_e_lgo, g.MUON_ELECTRON_STRUCTURAL_RATIO))

\* the outcome of calling function fn with the arguments args
Outcome(g, fn, args) ==
  CASE fn = "calculate_geometric_flaw_delta" ->
         calculate_geometric_flaw_delta(args[1], args[2])
    [] fn = "calculate_structurally_consistent_G" ->
         calculate_structurally_consistent_G(g, args[1])
    [] fn = "check_structural_consistency" ->
         check_structural_consistency(args[1], args[2], args[3])
    [] fn = "derive_electron_mass" ->
         derive_electron_mass(args[1], args[2], args[3])
    [] fn = "derive_muon_mass" ->
         derive_muon_mass(g, args[1])

(***************************************************************************)
(* The arguments the calls are tried on.                                   *)
(***************************************************************************)
MaxInt == 2

IntVals == {F2(s, n, 0) : s \in 0..1, n \in 0..MaxInt}
MinSubnormal == F2(0, 1, MinExp)
Huge == F2(0, 1, 1023)
Edge == {FInf(0), FInf(1), NaN, MinSubnormal, Huge}

Originals == IntVals \cup Edge \cup {G_LGO_ORIGINAL}
Targets == IntVals \cup Edge \cup {G_CODATA, G_LGO_ORIGINAL}
Deltas == IntVals \cup {FInf(0), NaN,
                        calculate_geometric_flaw_delta(G_LGO_ORIGINAL, G_CODATA).v}
CheckValues == IntVals \cup {FInf(0), NaN, G_CODATA}
CheckTargets == {F2(0, n, 0) : n \in 0..MaxInt} \cup {FInf(0), NaN, G_CODATA}
Tolerances == {DefaultTolerance, FZero(0), FZero(1), F2(1, 1, 0), One,
               FInf(0), NaN, MinSubnormal}
Gammas == {FZero(0), FZero(1), One, FInf(0), NaN, MinSubnormal, GAMMA_1}
Alphas == {FZero(0), FZero(1), One, FInf(0), NaN, MinSubnormal, ALPHA_LGO}
PlanckMasses == {FZero(0), One, PLANCK_MASS_CODATA}
Masses == IntVals \cup {FInf(0), NaN,
                        derive_electron_mass(GAMMA_1, ALPHA_LGO, PLANCK_MASS_CODATA).v}

Calls ==
  ({"calculate_geometric_flaw_delta"} \X {<<o, t>> : o \in Originals, t \in Targets})
  \cup ({"calculate_structurally_consistent_G"} \X {<<d>> : d \in Deltas})
  \cup ({"check_structural_consistency"}
          \X {<<v, t, tol>> : v \in CheckValues, t \in CheckTargets, tol \in Tolerances})
  \cup ({"derive_electron_mass"}
          \X {<<gm, a, mp>> : gm \in Gammas, a \in Alphas, mp \in PlanckMasses})
  \cup ({"derive_muon_mass"} \X {<<m>> : m \in Masses})

(***************************************************************************)
(* State: the module namespace, the driver run_verification (its position, *)
(* its local names, what it has printed) and a second execution context    *)
(* that calls the five functions one call after another.                   *)
(***************************************************************************)
VARIABLES globals, pc, locals, stdout, call

vars == <<globals, pc, locals, stdout, call>>

Idle == [st |-> "idle", v |-> NoValue, exc |-> ""]
Pending == [st |-> "pending", v |-> NoValue, exc |-> ""]

Init ==
  /\ globals = ModuleGlobals
  /\ pc = "header"
  /\ locals = <<>>
  /\ stdout = <<>>
  /\ call = [fn |-> "", args |-> <<>>, out |-> Idle]

\* a formatted value of an f-string: the format and the value it renders
Fmt(spec, v) == <<spec, v>>

Bind(name, v) == [n \in DOMAIN locals \cup {name} |->
                    IF n = name THEN v ELSE locals[n]]

\* a driver statement name = f(...): bind the result, or die of the exception
Assign(name, outcome, next) ==
  IF outcome.st = "raise"
  THEN /\ pc' = "crashed"
       /\ UNCHANGED locals
  ELSE /\ pc' = next
       /\ locals' = Bind(name, outcome.v)

\* lines 134-138
PrintHeader ==
  /\ pc = "header"
  /\ stdout' = stdout \o
       << <<"=======">>, <<" LGO Structural Verification Monofile (V13.0)">>,
          <<"=======">>,
          <<"Core Geometric Constraints", Fmt(".6f", globals.C_ZETA),
            Fmt("", globals.C_MAX), Fmt(".10e", globals.C_LGO)>>,
          <<"-------">> >>
  /\ pc' = "delta"
  /\ UNCHANGED <<globals, locals, call>>

\* lines 141-142; the defaults are the constants' values at definition time
ComputeDelta ==
  /\ pc = "delta"
  /\ stdout' = Append(stdout, <<"[1] GRAVITATIONAL CONSTANT STRUCTURAL CONSISTENCY">>)
  /\ Assign("delta", calculate_geometric_flaw_delta(G_LGO_ORIGINAL, G_CODATA),
            "G_prime")
  /\ UNCHANGED <<globals, call>>

\* line 143
ComputeGPrime ==
  /\ pc = "G_prime"
  /\ Assign("G_prime", calculate_structurally_consistent_G(globals, locals["delta"]),
            "check")
  /\ UNCHANGED <<globals, stdout, call>>

\* line 144
ComputeIsConsistent ==
  /\ pc = "check"
  /\ Assign("is_consistent",
            check_structural_consistency(locals["G_prime"], G_CODATA, DefaultTolerance),
            "print_G")
  /\ UNCHANGED <<globals, stdout, call>>

\* lines 146-151
PrintG ==
  /\ pc = "print_G"
  /\ stdout' = stdout \o
       << <<"LGO Original G (Flawed)", Fmt(".10e", globals.G_LGO_ORIGINAL)>>,
          <<"CODATA Target G", Fmt(".10e", globals.G_CODATA)>>,
          <<"Geometric Flaw (delta)", Fmt(".10e", locals["delta"])>>,
          <<"Structurally Consistent G", Fmt(".10e", locals["G_prime"])>>,
          <<"Structural Consistency Achieved", Fmt("", locals["is_consistent"])>>,
          <<"-------">> >>
  /\ pc' = "m_e"
  /\ UNCHANGED <<globals, locals, call>>

\* lines 154-155
ComputeElectronMass ==
  /\ pc = "m_e"
  /\ stdout' = Append(stdout, <<"[2] GEOMETRIC OPERATOR L OUTPUT (Lepton Mass Derivation)">>)
  /\ Assign("m_e_lgo", derive_electron_mass(GAMMA_1, ALPHA_LGO, PLANCK_MASS_CODATA),
            "m_mu")
  /\ UNCHANGED <<globals, call>>

\* the muon mass taken from another local name
ComputeMuonMassFromGPrime ==
  /\ pc = "m_mu"
  /\ Assign("m_mu_lgo", derive_muon_mass(globals, locals["G_prime"]), "m_e_dev")
  /\ UNCHANGED <<globals, stdout, call>>

\* line 156
ComputeMuonMass ==
  /\ pc = "m_mu"
  /\ Assign("m_mu_lgo", derive_muon_mass(globals, locals["m_e_lgo"]), "m_e_dev")
  /\ UNCHANGED <<globals, stdout, call>>

\* 100 * abs(m - ref) / ref
DevPercent(m, ref) == PyDiv(FMul(F2(0, 100, 0), FAbs(FSub(m, ref))), ref)

\* lines 159-161
ComputeElectronDev ==
  /\ pc = "m_e_dev"
  /\ Assign("m_e_dev_percent", DevPercent(locals["m_e_lgo"], M_E_CODATA), "m_mu_dev")
  /\ UNCHANGED <<globals, stdout, call>>

\* line 162
ComputeMuonDev ==
  /\ pc = "m_mu_dev"
  /\ Assign("m_mu_dev_percent", DevPercent(locals["m_mu_lgo"], M_MU_CODATA),
            "print_mass")
  /\ UNCHANGED <<globals, stdout, call>>

\* lines 164-169
PrintMass ==
  /\ pc = "print_mass"
  /\ stdout' = stdout \o
       << <<"Input: First Riemann Zero", Fmt(".8f", globals.GAMMA_1)>>,
          <<"Input: LGO Alpha Inverse", Fmt(".8f", globals.ALPHA_INV_LGO)>>,
          <<"DERIVATION RESULTS:">>,
          <<"Electron Mass (LGO)", Fmt(".10e", locals["m_e_lgo"]),
            Fmt(".4f", locals["m_e_dev_percent"])>>,
          <<"Muon Mass (LGO)", Fmt(".10e", locals["m_mu_lgo"]),
            Fmt(".4f", locals["m_mu_dev_percent"])>>,
          <<"=======">> >>
  /\ pc' = "done"
  /\ UNCHANGED <<globals, locals, call>>

(***************************************************************************)
(* The second context: it calls a function, the body runs, and the caller  *)
(* drops the result before its next call.                                  *)
(***************************************************************************)
Invoke ==
  /\ call.out.st = "idle"
  /\ \E c \in Calls : call' = [fn |-> c[1], args |-> c[2], out |-> Pending]
  /\ UNCHANGED <<globals, pc, locals, stdout>>

\* the body of function fn has run to its outcome: it assigns no global name
Finish(fn, outcome) ==
  /\ call.out.st = "pending"
  /\ call.fn = fn
  /\ call' = [call EXCEPT !.out = outcome]
  /\ UNCHANGED <<globals, pc, locals, stdout>>

RunFlawDelta ==
  Finish("calculate_geometric_flaw_delta",
         calculate_geometric_flaw_delta(call.args[1], call.args[2]))

RunConsistentG ==
  Finish("calculate_structurally_consistent_G",
         calculate_structurally_consistent_G(globals, call.args[1]))

RunCheck ==
  Finish("check_structural_consistency",
         check_structural_consistency(call.args[1], call.args[2], call.args[3]))

RunElectronMass ==
  Finish("derive_electron_mass",
         derive_electron_mass(call.args[1], call.args[2], call.args[3]))

\* a body that rebinds a module constant (global ...; ... = result)
RunMuonMassRebinding ==
  /\ call.out.st = "pending"
  /\ call.fn = "derive_muon_mass"
  /\ call' = [call EXCEPT !.out = derive_muon_mass(globals, call.args[1])]
  /\ globals' = [globals EXCEPT !.MUON_ELECTRON_STRUCTURAL_RATIO = call.args[1]]
  /\ UNCHANGED <<pc, locals, stdout>>

RunMuonMass ==
  Finish("derive_muon_mass", derive_muon_mass(globals, call.args[1]))

Discard ==
  /\ call.out.st \in {"return", "raise"}
  /\ call' = [fn |-> "", args |-> <<>>, out |-> Idle]
  /\ UNCHANGED <<globals, pc, locals, stdout>>

Next ==
  \/ PrintHeader
  \/ ComputeDelta
  \/ ComputeGPrime
  \/ ComputeIsConsistent
  \/ PrintG
  \/ ComputeElectronMass
  \/ ComputeMuonMass
  \/ ComputeElectronDev
  \/ ComputeMuonDev
  \/ PrintMass
  \/ Invoke
  \/ RunFlawDelta
  \/ RunConsistentG
  \/ RunCheck
  \/ RunElectronMass
  \/ RunMuonMass
  \/ Discard

Spec == Init /\ [][Next]_vars

(***************************************************************************)
(* The claims.                                                             *)
(***************************************************************************)
Called(fn) == call.fn = fn /\ call.out.st \in {"return", "raise"}
Returned(fn) == call.fn = fn /\ call.out.st = "return"
Raised(fn) == call.fn = fn /\ call.out.st = "raise"

MaxAbs(a, b) == IF FLt(FAbs(a), FAbs(b)) THEN FAbs(b) ELSE FAbs(a)

\* |r - t| <= 2^-50 * max(|o|, |t|): r is t up to the rounding of the four
\* operations of the round trip
WithinRounding(r, t, o) ==
  /\ IsFinite(r)
  /\ ~FLt(FMul(F2(0, 1, -50), MaxAbs(o, t)), FAbs(FSub(r, t)))

\* the delta of a finished call of calculate_geometric_flaw_delta, corrected
RoundTrip == calculate_structurally_consistent_G(globals, call.out.v).v

C2_FlawDeltaRaisesIffZero ==
  Called("calculate_geometric_flaw_delta") =>
    /\ call.out.st = "raise" <=> FEq(call.args[1], FZero(0))
    /\ call.out.st = "raise" => call.out.exc = "ValueError"

C2_Witness ==
  /\ Raised("calculate_geometric_flaw_delta")
  /\ IsZero(call.args[1]) /\ call.args[1].s = 1
  /\ IsNaN(call.args[2])

\* C3: derive_electron_mass returns 0 and does not raise when gamma_1 == 0,
\* for every alpha (0 included) and every m_planck.
C3_ElectronMassZeroGamma ==
  (Called("derive_electron_mass") /\ FEq(call.args[1], FZero(0)))
    => call.out.st = "return" /\ call.out.v = FZero(0)

C3_Witness ==
  /\ Returned("derive_electron_mass")
  /\ IsZero(call.args[1]) /\ IsZero(call.args[2])
  /\ call.args[3] = PLANCK_MASS_CODATA

\* the ratios a caller might want
Ratios == {MUON_ELECTRON_STRUCTURAL_RATIO, One, F2(0, 2, 0)}

\* C4 as stated: the secondary mass is primary * ratio for every ratio the
\* caller chooses.
C4_AnyRatio ==
  \A ratio \in Ratios :
    (Returned("derive_muon_mass") /\ IsFinite(call.args[1]))
      => call.out.v = FMul(call.args[1], ratio)

\* C4 amended: derive_muon_mass(primary) returns the double product
\* primary * 206.64222667 (MUON_ELECTRON_STRUCTURAL_RATIO) for every primary.
C4_FixedRatio ==
  Called("derive_muon_mass") =>
    /\ call.out.st = "return"
    /\ call.out.v = FMul(call.args[1], MUON_ELECTRON_STRUCTURAL_RATIO)

C4_Witness ==
  /\ Returned("derive_muon_mass")
  /\ call.args[1] = F2(0, 2, 0)
  /\ IsFinite(call.out.v) /\ ~IsZero(call.out.v)

Positive(t) == FLt(FZero(0), t)

\* C5 as stated: true on (x, x, t) for every x and every t > 0.
C5_ReflexiveAnyX ==
  (/\ Called("check_structural_consistency")
   /\ call.args[1] = call.args[2]
   /\ Positive(call.args[3]))
    => call.out.st = "return" /\ call.out.v = TRUE

\* C5 amended: the result is |value - target| < tolerance, strictly; so it
\* is true on (x, x, t) for every finite x and every t > 0, false when the
\* distance equals the tolerance, and false for every tolerance <= 0.
C5_StrictTolerance ==
  Called("check_structural_consistency") =>
    /\ call.out.st = "return"
    /\ call.out.v <=> FLt(FAbs(FSub(call.args[1], call.args[2])), call.args[3])
    /\ (/\ IsFinite(call.args[1])
        /\ call.args[1] = call.args[2]
        /\ Positive(call.args[3])) => call.out.v
    /\ FEq(FAbs(FSub(call.args[1], call.args[2])), call.args[3]) => ~call.out.v
    /\ ~Positive(call.args[3]) => ~call.out.v

C5_Witness ==
  /\ Returned("check_structural_consistency")
  /\ call.args[1] = G_CODATA /\ call.args[2] = G_CODATA
  /\ call.args[3] = MinSubnormal
  /\ call.out.v = TRUE

\* C6 as stated: the delta of (original, original) is 0 for every nonzero
\* original.
C6_SelfDeltaAnyNonzero ==
  (/\ Called("calculate_geometric_flaw_delta")
   /\ call.args[1] = call.args[2]
   /\ ~FEq(call.args[1], FZero(0)))
    => call.out.st = "return" /\ FEq(call.out.v, FZero(0))

\* C6 amended: the delta of (original, original) is exactly 0 for every
\* finite nonzero original.
C6_SelfDeltaFiniteNonzero ==
  (/\ Called("calculate_geometric_flaw_delta")
   /\ call.args[1] = call.args[2]
   /\ IsFinite(call.args[1])
   /\ ~FEq(call.args[1], FZero(0)))
    => call.out.st = "return" /\ FEq(call.out.v, FZero(0))

C6_Witness ==
  /\ Returned("calculate_geometric_flaw_delta")
  /\ call.args[1] = F2(1, 2, 0) /\ call.args[2] = F2(1, 2, 0)
  /\ IsZero(call.out.v)

Has(name) == name \in DOMAIN locals

\* C7: in the driver, with original 6.67435e-11 and target 6.67430e-11, the
\* corrected value lies within 1e-18 of the target and is_consistent is true.
C7_DriverGConsistent ==
  Has("is_consistent") =>
    /\ locals["is_consistent"] = TRUE
    /\ FLt(FAbs(FSub(locals["G_prime"], G_CODATA)), DefaultTolerance)

C7_Witness ==
  /\ pc = "done"
  /\ Has("is_consistent") /\ locals["is_consistent"] = TRUE
  /\ Has("G_prime") /\ IsFinite(locals["G_prime"])

\* C8: no call changes a module constant, and a finished call's outcome is
\* the one its arguments give under the initial constants, whatever ran
\* before it or beside it.
C8_ConstantsNeverChange ==
  /\ globals = ModuleGlobals
  /\ call.out.st \in {"return", "raise"}
       => call.out = Outcome(ModuleGlobals, call.fn, call.args)

C8_Witness ==
  /\ pc = "m_mu"
  /\ Returned("derive_muon_mass")
  /\ call.args[1] = One

Printed(label) == \E i \in 1..Len(stdout) : stdout[i][1] = label

\* C9: the driver computes delta, then the corrected value from that delta,
\* then the check on that corrected value, then the primary mass, then the
\* secondary mass from the value the primary-mass step returned, and prints
\* the mass results only after that.
C9_DriverOrder ==
  /\ Has("G_prime") =>
       /\ Has("delta")
       /\ locals["G_prime"]
            = calculate_structurally_consistent_G(ModuleGlobals, locals["delta"]).v
  /\ Has("is_consistent") =>
       /\ Has("G_prime")
       /\ locals["is_consistent"]
            = check_structural_consistency(locals["G_prime"], G_CODATA,
                                           DefaultTolerance).v
  /\ Has("m_e_lgo") => Has("is_consistent")
  /\ Has("m_mu_lgo") =>
       /\ Has("m_e_lgo")
       /\ locals["m_mu_lgo"] = derive_muon_mass(ModuleGlobals, locals["m_e_lgo"]).v
  /\ Printed("Muon Mass (LGO)") \/ Printed("Electron Mass (LGO)")
       => Has("m_mu_lgo")

C9_Witness ==
  /\ pc = "done"
  /\ Has("m_mu_lgo") /\ Has("m_e_lgo")
  /\ Printed("Muon Mass (LGO)")

\* C10: derive_electron_mass raises (a ZeroDivisionError) exactly when
\* gamma_1 != 0 and alpha == 0; with gamma_1 == 0 the guard returns first.
C10_ElectronMassRaisesIffAlphaZero ==
  Called("derive_electron_mass") =>
    /\ call.out.st = "raise"
         <=> (~FEq(call.args[1], FZero(0)) /\ FEq(call.args[2], FZero(0)))
    /\ call.out.st = "raise" => call.out.exc = "ZeroDivisionError"

C10_Witness ==
  /\ Raised("derive_electron_mass")
  /\ call.args[1] = GAMMA_1 /\ IsZero(call.args[2])

====
